---- MODULE Spec2Model ----
(***************************************************************************)
(* Model of rod-utils: the retrying actuators SafeClick and SafeElement    *)
(* (page.go), the bounded runner timeLimit and RodOperationWrapper         *)
(* (wrapper), and two of the nil-checked pass-through helpers.             *)
(*                                                                         *)
(* One call is modelled per behaviour: Init draws the function called and  *)
(* its arguments, the actions are the steps of that call.  The outcome of  *)
(* every driver / OS call (Element, WaitVisible, WaitStable, Click,        *)
(* MkdirAll, Screenshot, WriteFile) and of the caller's operation is drawn *)
(* nondeterministically.                                                   *)
(*                                                                         *)
(* An error value is a sequence of messages: the head is the error's own   *)
(* message, the tail is its Unwrap chain.  The nil error is <<>>.          *)
(***************************************************************************)
EXTENDS Integers, Sequences, FiniteSets, TLC

VARIABLES
    fn,         \* the function this behaviour calls
    page,       \* the *rod.Page argument: Nil or a handle
    e,          \* the *rod.Element argument of Click: Nil or a handle
    optsArg,    \* the *RodOptions argument as passed (possibly nil)
    timeout,    \* RodOperationWrapper: *timeout after option defaulting (int64 ns)
    pc,         \* position of the calling goroutine
    opts,       \* SafeClick/SafeElement: opts after defaulting
    i,          \* SafeClick/SafeElement: loop counter
    lastErr,    \* SafeClick/SafeElement: lastErr
    el,         \* SafeClick/SafeElement: el of the current attempt
    retElem,    \* returned element (SafeElement, PageElement)
    retErr,     \* returned error of the call
    log,        \* history: outcome of every finished attempt, in order
    steps,      \* history: number of driver steps / sleeps performed, by kind
    trail,      \* history: the driver steps of the current attempt, in order
    gpc,        \* timeLimit: position of the spawned goroutine
    opResult,   \* timeLimit: what f() returned: "running", "nil" or "error"
    ctxDone,    \* timeLimit: ctx.Done() is closed
    tlRet,      \* timeLimit: its return value
    limit,      \* RodOperationWrapper: limit, the duration given to timeLimit
    hist,       \* history of the bounded run (see TLHist0)
    fx          \* RodOperationWrapper: side effects performed

vars == <<fn, page, e, optsArg, timeout, pc, opts, i, lastErr, el, retElem, retErr,
          log, steps, trail, gpc, opResult, ctxDone, tlRet, limit, hist, fx>>

argVars == <<fn, page, e, optsArg, timeout>>
retryVars == <<opts, i, lastErr, el, log>>
runnerVars == <<gpc, opResult, ctxDone, tlRet, limit, hist, fx>>

\* what a step of SafeClick / SafeElement leaves alone
RetryFrame == UNCHANGED argVars /\ UNCHANGED runnerVars

\* what RodOperationWrapper leaves alone
WrapperFrame == UNCHANGED argVars /\ UNCHANGED retryVars /\ UNCHANGED <<retElem, steps, trail>>

\* what a step in or after timeLimit leaves alone
RunnerFrame == WrapperFrame /\ UNCHANGED limit

----------------------------------------------------------------------------
(* Bounds and program constants                                            *)

\* largest RetryCount passed explicitly
MaxRetry == 2

\* DefaultRodOptions().RetryCount
DefaultRetryCount == 3

Nil == "nil"
NoErr == <<>>

Functions == {"SafeClick", "SafeElement", "RodOperationWrapper", "PageElement", "Click"}

\* the RodOptions fields that decide control flow
RodOptions == [RetryCount : {-1} \cup (0..MaxRetry), MustVisible : BOOLEAN, MustStable : BOOLEAN]

DefaultRodOptions == [RetryCount |-> DefaultRetryCount, MustVisible |-> TRUE, MustStable |-> TRUE]

\* a *RodOptions argument: nil, or a pointer to a RodOptions value
NilOpts == [nil |-> TRUE, val |-> DefaultRodOptions]
OptsArgs == {NilOpts} \cup {[nil |-> FALSE, val |-> o] : o \in RodOptions}

----------------------------------------------------------------------------
(* Errors                                                                  *)

\* fmt.Errorf("msg: %w", err): the new error wraps err
ErrorfW(msg, err) == <<msg>> \o err

\* fmt.Errorf("msg: %v", err), errors.New(msg): err is only formatted into
\* the text, the new error has no Unwrap chain
ErrorfV(msg, err) == <<msg>>

DriverErr == <<"driver error">>
OsErr == <<"os error">>
OpErr == <<"operation error">>

Steps0 == [locate |-> 0, visible |-> 0, stable |-> 0, click |-> 0, clickOK |-> 0, sleep |-> 0]

Did(kind) == [steps EXCEPT ![kind] = @ + 1]

\* a driver step of an attempt is performed: it is counted, and it joins the
\* trail of the attempt, which a locate step starts
Perform(kind) ==
    /\ steps' = Did(kind)
    /\ trail' = IF kind = "locate" THEN <<kind>> ELSE Append(trail, kind)

----------------------------------------------------------------------------
(* time.Duration: an int64 count of nanoseconds.  A value is its eight     *)
(* bytes in two's complement, least significant first, so that arithmetic  *)
(* keeps the 64-bit width.                                                 *)

\* the int64 of a literal 0 <= n < 2^31
Duration(n) ==
    <<n % 256, (n \div 256) % 256, (n \div 65536) % 256, (n \div 16777216) % 256,
      0, 0, 0, 0>>

\* the int64 -1
MinusOne == <<255, 255, 255, 255, 255, 255, 255, 255>>

\* time.Second, 10^9 nanoseconds
Second == Duration(1000000000)

\* x < 0, x > 0 on int64
Negative(x) == x[8] >= 128
Positive(x) == ~Negative(x) /\ x # Duration(0)

\* column k of the schoolbook product: the sum of a[m] * b[n] with m + n = k + 1
RECURSIVE ColSum(_, _, _, _)
ColSum(a, b, k, m) ==
    IF m > 8 THEN 0
    ELSE (IF (k + 1 - m) \in 1..8 THEN a[m] * b[k + 1 - m] ELSE 0) + ColSum(a, b, k, m + 1)

\* the bytes k..16 of the exact product of the unsigned a and b
RECURSIVE MulBytes(_, _, _, _)
MulBytes(a, b, k, carry) ==
    IF k > 16 THEN <<>>
    ELSE LET s == ColSum(a, b, k, 1) + carry
         IN  <<s % 256>> \o MulBytes(a, b, k + 1, s \div 256)

\* a * b on int64: the low 64 bits of the product (Go wraps around silently)
Mul(a, b) == SubSeq(MulBytes(a, b, 1, 0), 1, 8)

\* the values *timeout can have when limit is computed: opts.TimeoutDuration as
\* the caller set it, or DefaultTimeoutDuration (a package constant) when opts
\* or the field is nil: -1ns, 0, 3ns, 1s, 10s
Timeouts ==
    {MinusOne, Duration(0), Duration(3), Mul(Duration(1), Second), Mul(Duration(10), Second)}

----------------------------------------------------------------------------
(* Initial state: the call and its arguments                               *)

\* history of one bounded run:
\*   elapsed          the deadline timer has fired
\*   opBeforeDeadline f() returned while the deadline had not elapsed
\*   deadlineFirst    the deadline elapsed while f() had not returned
\*   bothReady        the select found both of its cases ready
TLHist0 == [elapsed |-> FALSE, opBeforeDeadline |-> FALSE, deadlineFirst |-> FALSE,
            bothReady |-> FALSE]

\* side effects of the screenshot step: "no" (not attempted), "ok", "failed"
Fx0 == [mkdir |-> "no", shot |-> "no", file |-> "no"]

Init ==
    /\ fn \in Functions
    /\ page \in {Nil, "page"}
    /\ e \in IF fn = "Click" THEN {Nil, "elem"} ELSE {Nil}
    /\ optsArg \in IF fn \in {"SafeClick", "SafeElement"} THEN OptsArgs ELSE {NilOpts}
    /\ (fn = "Click" => page = Nil)
    /\ timeout \in IF fn = "RodOperationWrapper" THEN Timeouts ELSE {Duration(0)}
    /\ limit = Duration(0)
    /\ pc = "entry"
    /\ opts = DefaultRodOptions
    /\ i = 0
    /\ lastErr = NoErr
    /\ el = Nil
    /\ retElem = Nil
    /\ retErr = NoErr
    /\ log = <<>>
    /\ steps = Steps0
    /\ trail = <<>>
    /\ gpc = "none"
    /\ opResult = "running"
    /\ ctxDone = FALSE
    /\ tlRet = NoErr
    /\ hist = TLHist0
    /\ fx = Fx0

----------------------------------------------------------------------------
(* The retry loop shared in shape by SafeClick and SafeElement             *)

\* mutant of LoopCond: the loop stops one attempt early (i < opts.RetryCount)
LoopCondExclusive(k, retryCount) == k < retryCount

\* for i := 0; i <= opts.RetryCount; i++
LoopCond(k, retryCount) == k <= retryCount

\* mutant of SetLastErr: the first failure is kept, later ones are dropped
SetLastErrKeepFirst(prev, msg, err) == IF prev = <<>> THEN <<msg>> \o err ELSE prev

\* lastErr = fmt.Errorf("...: %w", err): the new failure replaces the old one
SetLastErr(prev, msg, err) == ErrorfW(msg, err)

\* mutant of FailAttempt: the `continue` is missing, so after recording the
\* failure the attempt falls through to its next step
FailAttemptFallThrough(msg) ==
    /\ lastErr' = <<msg>> \o <<"driver error">>
    /\ log' = Append(log, msg)
    /\ UNCHANGED <<i, el>>
    /\ pc' = IF pc \in {"locate", "visible"} THEN "stable"
             ELSE IF pc = "stable" /\ fn = "SafeClick" THEN "click"
             ELSE IF pc = "stable" THEN "found"
             ELSE "loop"

\* `continue` after a failed step: record the failure, end the attempt, i++
FailAttempt(msg) ==
    /\ lastErr' = SetLastErr(lastErr, msg, DriverErr)
    /\ log' = Append(log, msg)
    /\ i' = i + 1
    /\ el' = Nil
    /\ pc' = "loop"

\* mutant of SleepBefore: the delay also precedes the first attempt
SleepBeforeEvery(k) == k >= 0

\* if i > 0 { time.Sleep(opts.RetryDelay) }
SleepBefore(k) == k > 0

\* loop head: the condition, then `if i > 0 { time.Sleep(opts.RetryDelay) }`
LoopHead ==
    /\ fn \in {"SafeClick", "SafeElement"} /\ pc = "loop"
    /\ pc' = IF LoopCond(i, opts.RetryCount)
             THEN (IF SleepBefore(i) THEN "sleep" ELSE "locate")
             ELSE "exit"
    /\ UNCHANGED <<opts, i, lastErr, el, log, steps, trail, retElem, retErr>>
    /\ RetryFrame

Sleep ==
    /\ fn \in {"SafeClick", "SafeElement"} /\ pc = "sleep"
    /\ steps' = Did("sleep")
    /\ pc' = "locate"
    /\ UNCHANGED <<opts, i, lastErr, el, log, trail, retElem, retErr>>
    /\ RetryFrame

----------------------------------------------------------------------------
(* SafeClick                                                               *)

\* opts defaulting and `var lastErr error`; SafeClick has no nil check of page
SafeClickEntry ==
    /\ fn = "SafeClick" /\ pc = "entry"
    /\ opts' = IF optsArg.nil THEN DefaultRodOptions ELSE optsArg.val
    /\ lastErr' = NoErr
    /\ i' = 0
    /\ pc' = "loop"
    /\ UNCHANGED <<el, log, steps, trail, retElem, retErr>>
    /\ RetryFrame

\* el, err := page.Context(ctx).Element(selector)
\* page.Context dereferences page: a nil page panics
SafeClickLocate ==
    /\ fn = "SafeClick" /\ pc = "locate"
    /\ IF page = Nil
       THEN /\ pc' = "panic"
            /\ UNCHANGED <<opts, i, lastErr, el, log, steps, trail, retElem, retErr>>
       ELSE /\ Perform("locate")
            /\ \E ok \in BOOLEAN :
                IF ok
                THEN /\ el' = "el"
                     /\ pc' = "stable"
                     /\ UNCHANGED <<i, lastErr, log>>
                ELSE FailAttempt("element not found")
            /\ UNCHANGED <<opts, retElem, retErr>>
    /\ RetryFrame

\* el.WaitStable(opts.StableDuration), whatever opts.MustStable says;
\* the WaitVisible step is commented out
SafeClickStable ==
    /\ fn = "SafeClick" /\ pc = "stable"
    /\ Perform("stable")
    /\ \E ok \in BOOLEAN :
        IF ok
        THEN pc' = "click" /\ UNCHANGED <<i, lastErr, el, log>>
        ELSE FailAttempt("element not stable")
    /\ UNCHANGED <<opts, retElem, retErr>>
    /\ RetryFrame

\* el.Click(...), then `if lastErr == nil { return nil }`; otherwise the loop
\* goes on with i++
SafeClickClick ==
    /\ fn = "SafeClick" /\ pc = "click"
    /\ \E ok \in BOOLEAN :
        IF ok
        THEN /\ steps' = [steps EXCEPT !.click = @ + 1, !.clickOK = @ + 1]
             /\ trail' = Append(trail, "click")
             /\ log' = Append(log, "ok")
             /\ IF lastErr = NoErr
                THEN /\ retErr' = NoErr
                     /\ pc' = "done"
                     /\ UNCHANGED <<i, el>>
                ELSE /\ i' = i + 1
                     /\ el' = Nil
                     /\ pc' = "loop"
                     /\ UNCHANGED retErr
             /\ UNCHANGED lastErr
        ELSE /\ Perform("click")
             /\ FailAttempt("click failed")
             /\ UNCHANGED retErr
    /\ UNCHANGED <<opts, retElem>>
    /\ RetryFrame

\* return fmt.Errorf("all click attempts failed: %w", lastErr)
SafeClickExhausted ==
    /\ fn = "SafeClick" /\ pc = "exit"
    /\ retErr' = ErrorfW("all click attempts failed", lastErr)
    /\ pc' = "done"
    /\ UNCHANGED <<opts, i, lastErr, el, log, steps, trail, retElem>>
    /\ RetryFrame

SafeClick ==
    \/ SafeClickEntry
    \/ SafeClickLocate
    \/ SafeClickStable
    \/ SafeClickClick
    \/ SafeClickExhausted

----------------------------------------------------------------------------
(* SafeElement                                                             *)

\* where an attempt goes after locate (from = "locate") or after the
\* visibility wait (from = "visible"): `if opts.MustVisible`, `if opts.MustStable`
SafeElementNext(from, o) ==
    IF from = "locate" /\ o.MustVisible THEN "visible"
    ELSE IF o.MustStable THEN "stable"
    ELSE "found"

\* nil check of p, opts defaulting, `var lastErr error`, `var element`
SafeElementEntry ==
    /\ fn = "SafeElement" /\ pc = "entry"
    /\ IF page = Nil
       THEN /\ retElem' = Nil
            /\ retErr' = ErrorfV("rod.Page is nil", NoErr)
            /\ pc' = "done"
            /\ UNCHANGED <<opts, i, lastErr>>
       ELSE /\ opts' = IF optsArg.nil THEN DefaultRodOptions ELSE optsArg.val
            /\ lastErr' = NoErr
            /\ i' = 0
            /\ pc' = "loop"
            /\ UNCHANGED <<retElem, retErr>>
    /\ UNCHANGED <<el, log, steps, trail>>
    /\ RetryFrame

\* el, err := p.Context(ctx).Element(selector)
SafeElementLocate ==
    /\ fn = "SafeElement" /\ pc = "locate"
    /\ Perform("locate")
    /\ \E ok \in BOOLEAN :
        IF ok
        THEN /\ el' = "el"
             /\ pc' = SafeElementNext("locate", opts)
             /\ UNCHANGED <<i, lastErr, log>>
        ELSE FailAttempt("element not found")
    /\ UNCHANGED <<opts, retElem, retErr>>
    /\ RetryFrame

\* el.WaitVisible()
SafeElementVisible ==
    /\ fn = "SafeElement" /\ pc = "visible"
    /\ Perform("visible")
    /\ \E ok \in BOOLEAN :
        IF ok
        THEN /\ pc' = SafeElementNext("visible", opts)
             /\ UNCHANGED <<i, lastErr, el, log>>
        ELSE FailAttempt("element not visible")
    /\ UNCHANGED <<opts, retElem, retErr>>
    /\ RetryFrame

\* el.WaitStable(opts.StableDuration)
SafeElementStable ==
    /\ fn = "SafeElement" /\ pc = "stable"
    /\ Perform("stable")
    /\ \E ok \in BOOLEAN :
        IF ok
        THEN pc' = "found" /\ UNCHANGED <<i, lastErr, el, log>>
        ELSE FailAttempt("element not stable")
    /\ UNCHANGED <<opts, retElem, retErr>>
    /\ RetryFrame

\* element = el; return element, lastErr
SafeElementFound ==
    /\ fn = "SafeElement" /\ pc = "found"
    /\ log' = Append(log, "ok")
    /\ retElem' = el
    /\ retErr' = lastErr
    /\ pc' = "done"
    /\ UNCHANGED <<opts, i, lastErr, el, steps, trail>>
    /\ RetryFrame

\* return nil, fmt.Errorf("all attempts to get element failed: %w", lastErr)
SafeElementExhausted ==
    /\ fn = "SafeElement" /\ pc = "exit"
    /\ retElem' = Nil
    /\ retErr' = ErrorfW("all attempts to get element failed", lastErr)
    /\ pc' = "done"
    /\ UNCHANGED <<opts, i, lastErr, el, log, steps, trail>>
    /\ RetryFrame

SafeElement ==
    \/ SafeElementEntry
    \/ SafeElementLocate
    \/ SafeElementVisible
    \/ SafeElementStable
    \/ SafeElementFound
    \/ SafeElementExhausted

----------------------------------------------------------------------------
(* Nil-checked pass-through helpers                                        *)

\* PageElement(p, selector): nil check, then p.Element(selector)
PageElement ==
    /\ fn = "PageElement" /\ pc = "entry"
    /\ IF page = Nil
       THEN /\ retElem' = Nil
            /\ retErr' = ErrorfV("rod.Page is nil", NoErr)
            /\ UNCHANGED steps
       ELSE /\ steps' = Did("locate")
            /\ \E ok \in BOOLEAN :
                IF ok
                THEN retElem' = "el" /\ retErr' = NoErr
                ELSE retElem' = Nil /\ retErr' = ErrorfV("failed to get element", DriverErr)
    /\ pc' = "done"
    /\ UNCHANGED trail
    /\ UNCHANGED argVars /\ UNCHANGED retryVars /\ UNCHANGED runnerVars

\* Click(e): nil check, then e.WaitEnabled() and e.Click(...)
Click ==
    /\ fn = "Click" /\ pc = "entry"
    /\ IF e = Nil
       THEN /\ retErr' = ErrorfV("rod.Element is nil", NoErr)
            /\ UNCHANGED steps
       ELSE \E enabled \in BOOLEAN, ok \in BOOLEAN :
                IF ~enabled
                THEN /\ retErr' = ErrorfV("failed to wait for element to be enabled", NoErr)
                     /\ UNCHANGED steps
                ELSE IF ok
                THEN /\ retErr' = NoErr
                     /\ steps' = [steps EXCEPT !.click = @ + 1, !.clickOK = @ + 1]
                ELSE /\ retErr' = ErrorfV("failed to click", DriverErr)
                     /\ steps' = Did("click")
    /\ pc' = "done"
    /\ UNCHANGED <<retElem, trail>>
    /\ UNCHANGED argVars /\ UNCHANGED retryVars /\ UNCHANGED runnerVars

----------------------------------------------------------------------------
(* timeLimit and RodOperationWrapper                                       *)

\* fmt.Errorf("operation timed out: %v", ctx.Err())
TimeoutErr == ErrorfV("operation timed out", <<"context deadline exceeded">>)

\* mutant of SelectReady: the select has no `case <-ctx.Done()`
SelectReadyNoDeadline(g, done) == IF g = "blocked" THEN {"recv"} ELSE {}

\* the cases of timeLimit's select that can proceed
\*   case err := <-errorChan   a sender is blocked on the unbuffered channel
\*   case <-ctx.Done()         the context is done
SelectReady(g, done) ==
    (IF g = "blocked" THEN {"recv"} ELSE {}) \cup (IF done THEN {"done"} ELSE {})

\* the error value f() returned
OpError(r) == IF r = "error" THEN OpErr ELSE NoErr

\* the goroutine body after f() returned r: `if err != nil { errorChan <- err; return }`
AfterOp(r) == IF OpError(r) # NoErr THEN "send" ELSE "exited"

\* RodOperationWrapper up to and into timeLimit: option defaulting,
\* limit := time.Duration(*timeout) * time.Second, then context.WithTimeout
\* (a context with limit <= 0 is created already expired), make(chan error),
\* go func(){...}()
WrapperEntry ==
    /\ fn = "RodOperationWrapper" /\ pc = "entry"
    /\ limit' = Mul(timeout, Second)
    /\ IF Positive(limit')
       THEN UNCHANGED <<ctxDone, hist>>
       ELSE /\ ctxDone' = TRUE
            /\ hist' = [hist EXCEPT !.elapsed = TRUE, !.deadlineFirst = (opResult = "running")]
    /\ gpc' = "running"
    /\ pc' = "select"
    /\ UNCHANGED <<opResult, tlRet, fx, retErr>>
    /\ WrapperFrame

\* the spawned goroutine: err := f() returns, with nil or with an error
OpReturn ==
    /\ gpc = "running"
    /\ \E r \in {"nil", "error"} :
        /\ opResult' = r
        /\ gpc' = AfterOp(r)
    /\ hist' = [hist EXCEPT !.opBeforeDeadline = ~hist.elapsed]
    /\ UNCHANGED <<pc, ctxDone, tlRet, fx, retErr>>
    /\ RunnerFrame

\* the spawned goroutine: errorChan <- err.  The channel is unbuffered: the
\* send completes only against a receiver parked in the select, otherwise
\* the goroutine blocks
GoSend ==
    /\ gpc = "send"
    /\ IF pc = "parked"
       THEN /\ tlRet' = OpError(opResult)
            /\ pc' = "tl_ret"
            /\ gpc' = "exited"
       ELSE /\ gpc' = "blocked"
            /\ UNCHANGED <<pc, tlRet>>
    /\ UNCHANGED <<opResult, ctxDone, hist, fx, retErr>>
    /\ RunnerFrame

\* the timer of context.WithTimeout fires and closes ctx.Done(); a select
\* parked on it is woken with that case
DeadlineFires ==
    /\ gpc # "none" /\ ~ctxDone
    /\ ctxDone' = TRUE
    /\ hist' = [hist EXCEPT !.elapsed = TRUE, !.deadlineFirst = (opResult = "running")]
    /\ IF pc = "parked"
       THEN tlRet' = TimeoutErr /\ pc' = "tl_ret"
       ELSE UNCHANGED <<pc, tlRet>>
    /\ UNCHANGED <<gpc, opResult, fx, retErr>>
    /\ RunnerFrame

\* timeLimit reaches its select: one of the ready cases is chosen, and with
\* none ready the caller parks
TLSelect ==
    /\ pc = "select"
    /\ LET ready == SelectReady(gpc, ctxDone) IN
        IF ready = {}
        THEN /\ pc' = "parked"
             /\ UNCHANGED <<gpc, tlRet, hist>>
        ELSE /\ hist' = [hist EXCEPT !.bothReady = (Cardinality(ready) = 2)]
             /\ pc' = "tl_ret"
             /\ \E c \in ready :
                 IF c = "recv"
                 THEN tlRet' = OpError(opResult) /\ gpc' = "exited"
                 ELSE tlRet' = TimeoutErr /\ UNCHANGED gpc
    /\ UNCHANGED <<opResult, ctxDone, fx, retErr>>
    /\ RunnerFrame

\* timeLimit returns (defer cancel()), RodOperationWrapper tests `if err != nil`
WrapperAfterTimeLimit ==
    /\ pc = "tl_ret"
    /\ ctxDone' = TRUE
    /\ IF tlRet # NoErr
       THEN pc' = "mkdir" /\ UNCHANGED retErr
       ELSE pc' = "done" /\ retErr' = tlRet
    /\ UNCHANGED <<gpc, opResult, tlRet, hist, fx>>
    /\ RunnerFrame

\* os.MkdirAll(dir, 0755)
WrapperMkdir ==
    /\ pc = "mkdir"
    /\ \E ok \in BOOLEAN :
        IF ok
        THEN /\ fx' = [fx EXCEPT !.mkdir = "ok"]
             /\ pc' = "shot"
             /\ UNCHANGED retErr
        ELSE /\ fx' = [fx EXCEPT !.mkdir = "failed"]
             /\ retErr' = ErrorfW("failed to create screenshot directory", OsErr)
             /\ pc' = "done"
    /\ UNCHANGED <<gpc, opResult, ctxDone, tlRet, hist>>
    /\ RunnerFrame

\* page.Screenshot(true, ...): dereferences page, a nil page panics
WrapperScreenshot ==
    /\ pc = "shot"
    /\ IF page = Nil
       THEN pc' = "panic" /\ UNCHANGED <<fx, retErr>>
       ELSE \E ok \in BOOLEAN :
            IF ok
            THEN /\ fx' = [fx EXCEPT !.shot = "ok"]
                 /\ pc' = "write"
                 /\ UNCHANGED retErr
            ELSE /\ fx' = [fx EXCEPT !.shot = "failed"]
                 /\ retErr' = ErrorfW("failed to capture screenshot", DriverErr)
                 /\ pc' = "done"
    /\ UNCHANGED <<gpc, opResult, ctxDone, tlRet, hist>>
    /\ RunnerFrame

\* os.WriteFile(screenshotName, screenshotData, 0644), then `return err`
WrapperWriteFile ==
    /\ pc = "write"
    /\ \E ok \in BOOLEAN :
        IF ok
        THEN /\ fx' = [fx EXCEPT !.file = "ok"]
             /\ retErr' = tlRet
        ELSE /\ fx' = [fx EXCEPT !.file = "failed"]
             /\ retErr' = ErrorfV("failed to save screenshot", OsErr)
    /\ pc' = "done"
    /\ UNCHANGED <<gpc, opResult, ctxDone, tlRet, hist>>
    /\ RunnerFrame

\* timeLimit: the caller's steps, the spawned goroutine's, and the timer
timeLimit ==
    \/ TLSelect
    \/ OpReturn
    \/ GoSend
    \/ DeadlineFires

\* the steps of RodOperationWrapper around timeLimit
RodOperationWrapper ==
    \/ WrapperEntry
    \/ WrapperAfterTimeLimit
    \/ WrapperMkdir
    \/ WrapperScreenshot
    \/ WrapperWriteFile

----------------------------------------------------------------------------
(* Specifications                                                          *)

Next ==
    \/ LoopHead
    \/ Sleep
    \/ SafeClick
    \/ SafeElement
    \/ PageElement
    \/ Click
    \/ RodOperationWrapper
    \/ timeLimit

Spec == Init /\ [][Next]_vars

\* The calling goroutine is always scheduled again, the deadline timer always
\* fires, and a goroutine that is at its channel send executes it.  Nothing
\* makes the caller's operation return.
Fairness ==
    /\ WF_vars(TLSelect)
    /\ WF_vars(WrapperAfterTimeLimit)
    /\ WF_vars(WrapperMkdir)
    /\ WF_vars(WrapperScreenshot)
    /\ WF_vars(WrapperWriteFile)
    /\ WF_vars(GoSend)
    /\ WF_vars(DeadlineFires)

LiveSpec == Spec /\ Fairness

----------------------------------------------------------------------------
(* Vocabulary of the properties                                            *)

IsRetry == fn \in {"SafeClick", "SafeElement"}
IsWrapper == fn = "RodOperationWrapper"

\* the message of the error a retry actuator returns on exhaustion
ExhaustedMsg ==
    IF fn = "SafeClick" THEN "all click attempts failed"
    ELSE "all attempts to get element failed"

\* timeLimit has returned to RodOperationWrapper
TLReturned == IsWrapper /\ pc \in {"tl_ret", "mkdir", "shot", "write", "done", "panic"}

\* timeLimit is running and has not returned
InTimeLimit == IsWrapper /\ pc \in {"select", "parked"}

\* every finished attempt failed
AllFailed == \A k \in 1..Len(log) : log[k] # "ok"

\* attempt k is the first successful attempt
FirstSuccessAt(k) == k \in 1..Len(log) /\ log[k] = "ok" /\ \A j \in 1..(k - 1) : log[j] # "ok"

\* the attempt in progress has reached its action
AtAction == pc \in {"click", "found"}

InTrail(kind) == \E k \in 1..Len(trail) : trail[k] = kind

\* error x carries error y: y is x or is on the Unwrap chain of x
Carries(x, y) == \E k \in 1..Len(x) : SubSeq(x, k, Len(x)) = y

IoFailed == fx.mkdir = "failed" \/ fx.shot = "failed" \/ fx.file = "failed"

----------------------------------------------------------------------------
(* C1 .. C10                                                               *)

\* C1: an operation that returns strictly before the deadline makes timeLimit
\* return the operation's own outcome (nil for nil, its error for an error),
\* never a timeout error.
C1_OwnOutcomeBeforeDeadline ==
    (TLReturned /\ hist.opBeforeDeadline) => tlRet = OpError(opResult)

C3_SuccessOnAttemptK ==
    (IsRetry /\ opts.RetryCount >= 0) =>
        \A k \in 1..Len(log) :
            FirstSuccessAt(k) =>
                /\ pc = "done"
                /\ retErr = NoErr
                /\ Len(log) = k
                /\ steps.locate = k
                /\ steps.sleep = k - 1
                /\ (fn = "SafeElement" => retElem # Nil)

\* C4: with RetryCount = N >= 0 and a locate step that fails on every attempt,
\* SafeClick and SafeElement perform exactly N+1 locates, no wait and no
\* click, and return the exhaustion error wrapping "element not found".
C4_PermanentLocateFailure ==
    (/\ IsRetry /\ pc = "done" /\ page # Nil
     /\ opts.RetryCount >= 0
     /\ \A k \in 1..Len(log) : log[k] = "element not found")
    => /\ steps.locate = opts.RetryCount + 1
       /\ Len(log) = opts.RetryCount + 1
       /\ steps.visible = 0 /\ steps.stable = 0 /\ steps.click = 0
       /\ retErr = <<ExhaustedMsg, "element not found">> \o DriverErr
       /\ retElem = Nil

\* C4 witness: SafeClick has returned after MaxRetry+1 locates that all failed.
C4_Witness ==
    /\ fn = "SafeClick" /\ pc = "done" /\ page # Nil
    /\ ~optsArg.nil /\ opts.RetryCount = MaxRetry
    /\ Len(log) = MaxRetry + 1
    /\ \A k \in 1..Len(log) : log[k] = "element not found"

\* C5: both variants honour the flags: with MustVisible and MustStable false
\* no wait is performed; with MustVisible (MustStable) true the attempt has
\* performed the visibility (stability) wait when it reaches its action.
C5_FlagsHonoured ==
    IsRetry =>
        /\ (~opts.MustVisible /\ ~opts.MustStable) => (steps.visible = 0 /\ steps.stable = 0)
        /\ (AtAction /\ opts.MustVisible) => InTrail("visible")
        /\ (AtAction /\ opts.MustStable) => InTrail("stable")

\* C6: a nil page (nil element for Click) gives a returned precondition error
\* at once: the nil handle is never dereferenced (no panic), no driver step
\* and no sleep is performed, the wrapped operation is not started, and what
\* the call returns is the precondition error.
C6_NilTarget ==
    ((fn # "Click" /\ page = Nil) \/ (fn = "Click" /\ e = Nil)) =>
        /\ pc # "panic"
        /\ steps = Steps0
        /\ gpc = "none"
        /\ (pc = "done" => retErr \in {<<"rod.Page is nil">>, <<"rod.Element is nil">>})

\* C7: when all RetryCount+1 attempts fail, the returned error wraps exactly
\* the failure of the final attempt.
C7_LastFailureWins ==
    (/\ IsRetry /\ pc = "done" /\ page # Nil
     /\ opts.RetryCount >= 0
     /\ AllFailed)
    => /\ Len(log) = opts.RetryCount + 1
       /\ retErr = <<ExhaustedMsg, log[Len(log)]>> \o DriverErr

\* C7 witness: SafeElement has returned after MaxRetry+1 failed attempts, the
\* last of which failed differently from the first and from the one before it.
C7_Witness ==
    /\ fn = "SafeElement" /\ pc = "done" /\ page # Nil
    /\ Len(log) = MaxRetry + 1 /\ AllFailed
    /\ log[1] # log[Len(log)] /\ log[Len(log) - 1] # log[Len(log)]

\* C8: RodOperationWrapper touches the screenshot directory, the capture and
\* the file only when the operation failed or overran its deadline; an
\* operation that returns nil before the deadline gives nil and no side effect.
C8_ScreenshotOnlyOnFailure ==
    IsWrapper =>
        /\ (fx # Fx0 \/ pc \in {"mkdir", "shot", "write"})
              => (opResult = "error" \/ hist.deadlineFirst)
        /\ (pc = "done" /\ opResult = "nil" /\ hist.opBeforeDeadline)
              => (retErr = NoErr /\ fx = Fx0)

\* C9: when the screenshot step fails after a failed operation, the wrapper
\* returns the I/O error and that error still carries the operation's (or
\* the timeout) error.
C9_IoErrorKeepsCause ==
    (IsWrapper /\ pc = "done" /\ IoFailed) =>
        /\ retErr[1] \in {"failed to create screenshot directory",
                          "failed to capture screenshot", "failed to save screenshot"}
        /\ Carries(retErr, tlRet)

\* C10: SafeElement returns either an element and a nil error, or no element
\* and a non-nil error.
C10_ResultExclusive ==
    (fn = "SafeElement" /\ pc = "done") => ((retElem # Nil) <=> (retErr = NoErr))

----------------------------------------------------------------------------
(* C11 .. C16                                                              *)

\* C11: in SafeClick the click is performed successfully at most once per
\* call: after a successful click no further attempt is started, and a call
\* in which a click succeeded does not return "all click attempts failed".
C11_ClickAtMostOnce ==
    fn = "SafeClick" =>
        /\ steps.clickOK <= 1
        /\ (steps.clickOK >= 1 => pc = "done" /\ retErr = NoErr)

\* position of a driver step in the order locate, wait-visible, wait-stable, click
Rank(kind) ==
    IF kind = "locate" THEN 1
    ELSE IF kind = "visible" THEN 2
    ELSE IF kind = "stable" THEN 3
    ELSE 4

\* number of driver steps performed so far, over all attempts
DriverSteps == steps.locate + steps.visible + steps.stable + steps.click

\* the steps of the current attempt begin with locate and follow the order
TrailOrdered ==
    /\ (trail # <<>> => trail[1] = "locate")
    /\ \A k \in 1..(Len(trail) - 1) : Rank(trail[k]) < Rank(trail[k + 1])

\* a locate is performed only when every attempt started so far has ended; a
\* wait, a click or the return of the handle is performed only in an attempt in
\* which no step has failed
StepGated ==
    (IsRetry /\ (DriverSteps' # DriverSteps \/ log' = Append(log, "ok"))) =>
        IF steps'.locate # steps.locate
        THEN Len(log) = steps.locate
        ELSE Len(log) < steps.locate /\ Len(trail) >= 1

\* C12: within an attempt of SafeClick or SafeElement the steps run in the
\* order locate, wait-visible, wait-stable, action; a step after locate is
\* executed only if no earlier step of that attempt failed, and a failed step
\* ends the attempt.
C12_StrictOrdering ==
    /\ [](IsRetry => TrailOrdered)
    /\ [][StepGated]_vars

\* C12 witness: after a failed attempt, a SafeElement attempt has passed
\* locate, wait-visible and wait-stable in that order and is at its action.
C12_Witness ==
    /\ fn = "SafeElement" /\ pc = "found"
    /\ trail = <<"locate", "visible", "stable">>
    /\ Len(log) >= 1

\* the sleeps performed match the attempts started (an attempt starts with
\* its locate): none before the first attempt, one per later attempt, the
\* one of the attempt about to start included
SleepsMatchAttempts ==
    /\ (steps.locate = 0 => steps.sleep = 0)
    /\ (steps.locate >= 1 =>
            steps.sleep = (steps.locate - 1) + (IF pc = "locate" THEN 1 ELSE 0))

\* a sleep happens only at the head of an attempt other than the first, and
\* the locate of that attempt is the next step
SleepPlaced ==
    (IsRetry /\ steps'.sleep # steps.sleep) =>
        /\ steps'.sleep = steps.sleep + 1
        /\ i > 0 /\ LoopCond(i, opts.RetryCount)
        /\ pc' = "locate" /\ i' = i

\* C13: in SafeClick and SafeElement a RetryDelay sleep occurs immediately
\* before each attempt other than the first and nowhere else, so once an
\* attempt has started the sleeps number the attempts started minus one (and
\* a call that starts no attempt sleeps never).
C13_SleepPlacement ==
    /\ [](IsRetry => SleepsMatchAttempts)
    /\ [][SleepPlaced]_vars

\* C13 witness: SafeElement has returned after MaxRetry+1 attempts and
\* MaxRetry sleeps.
C13_Witness ==
    /\ fn = "SafeElement" /\ pc = "done" /\ ~optsArg.nil
    /\ steps.locate = MaxRetry + 1
    /\ steps.sleep = MaxRetry

\* C14: when the operation returns, the goroutine timeLimit spawned
\* terminates: it is never blocked on the result channel once timeLimit has
\* returned (from then on nothing receives from errorChan, so a goroutine
\* blocked on its send stays blocked for ever).
C14_NoStuckWorker ==
    ~(TLReturned /\ opResult # "running" /\ gpc = "blocked")

\* the call has returned its "all ... attempts failed" error
ReturnedExhausted == IsRetry /\ pc = "done" /\ retErr # NoErr /\ retErr[1] = ExhaustedMsg

\* C15: for every RodOptions value, negative RetryCount included, an "all ...
\* attempts failed" error of SafeClick or SafeElement comes after at least one
\* attempt and wraps a non-nil error recorded by an attempt of that call.
C15_ExhaustionHasCause ==
    ReturnedExhausted =>
        /\ steps.locate >= 1
        /\ Len(retErr) >= 2
        /\ \E k \in 1..Len(log) : Tail(retErr) = <<log[k]>> \o DriverErr

\* the exact product of the non-negative a and b does not fit in an int64
Overflows(a, b) ==
    LET p == MulBytes(a, b, 1, 0)
    IN  p[8] >= 128 \/ \E k \in 9..16 : p[k] # 0

\* C16: the limit RodOperationWrapper passes to timeLimit equals the configured
\* duration (*timeout: opts.TimeoutDuration or the default), is positive when
\* that duration is positive, and its computation does not wrap around in 64
\* bits.
C16_LimitIsConfigured ==
    (IsWrapper /\ pc # "entry") =>
        /\ limit = timeout
        /\ (Positive(timeout) => Positive(limit))
        /\ (~Negative(timeout) => ~Overflows(timeout, Second))

====
